---- MODULE Spec2Model ----
(***************************************************************************)
(* Model of the conversation store and the dispatcher of src/agent.py      *)
(* (add_to_history, get_conversation_summary, clear_conversation,          *)
(* parse_command, run_agent) as served by the threaded Flask application   *)
(* of src/main.py.                                                         *)
(*                                                                         *)
(* Text is a sequence of one-character strings (user input) or a sequence  *)
(* of longer pieces (replies produced by tools, the model backend and the  *)
(* dispatcher).  The two global dictionaries conversation_history and      *)
(* conversation_metadata are functions whose DOMAIN is the set of keys     *)
(* present; both are defaultdicts, so a subscript read inserts the default *)
(* value for a missing key.                                                *)
(*                                                                         *)
(* Nothing in agent.py or main.py locks the dictionaries, and Python may   *)
(* switch threads between any two statements.  add_to_history and          *)
(* clear_conversation are therefore modelled statement by statement        *)
(* (AddStep, ClearStep); a whole call is the run of its statements         *)
(* (RunAdd, RunClear).  Switches inside one statement are not modelled.    *)
(***************************************************************************)
EXTENDS Integers, Sequences, FiniteSets, TLC

VARIABLES
    hist,       \* conversation_history: session_id -> list of messages
    meta,       \* conversation_metadata: session_id -> dict
    now,        \* the wall clock read by datetime.now(), in ticks
    th,         \* per request thread: position and locals
    arrivals,   \* number of requests that have entered a handler so far
    appended,   \* per session: messages appended since the last clear (log)
    lastOp      \* the last store operation run to completion, with its result

vars == <<hist, meta, now, th, arrivals, appended, lastOp>>

--------------------------------------------------------------------------
(* Program constants and the bounds of the model *)

MAX_HISTORY_LENGTH == 30

SecondsPerTick == 30

MaxNow == 1          \* the clock stops advancing at this many ticks
SeedPairs == 15      \* user/assistant exchanges already held by a seeded session
SeedLen == 29        \* messages already appended to a seeded store session
MaxOps == 3          \* store operations in one run of the sequential model

Sessions == {"s1", "s2"}
\* Session identifiers are interchangeable: the first request of a run is
\* taken to be for this one
FirstSession == "s1"
\* The request threads, in the order in which requests arrive: the k-th
\* request of a run is served by the k-th thread
ThreadOrder == <<"t1", "t2">>
Threads == {ThreadOrder[i] : i \in 1..Len(ThreadOrder)}
Roles == {"user", "assistant", "system"}

Min(a, b) == IF a < b THEN a ELSE b

--------------------------------------------------------------------------
(* Messages *)

\* agent.py:203-208: the message class is chosen from the role.  The field by
\* is bookkeeping of the model: the arrival number of the request that built
\* the message, 0 when it was built outside a request.
MessageFor(role, content) ==
    IF role = "user" THEN [type |-> "HumanMessage", content |-> content, by |-> 0]
    ELSE IF role = "assistant" THEN [type |-> "AIMessage", content |-> content, by |-> 0]
    ELSE [type |-> "SystemMessage", content |-> content, by |-> 0]

IsSystem(msg) == msg.type = "SystemMessage"

\* agent.py:27-35
get_system_message ==
    [type |-> "SystemMessage",
     content |-> <<"You are a helpful AI assistant with conversation memory and powerful tools.">>,
     by |-> 0]

ErrorMsg == <<"I encountered an error processing your request. Please try again.">>

NoHistory == <<"No conversation history">>

--------------------------------------------------------------------------
(* Python list and dict primitives *)

\* l[-n:] for n > 0: the last n elements, the whole list when it is shorter
LastN(l, n) ==
    IF Len(l) <= n THEN l ELSE SubSeq(l, Len(l) - n + 1, Len(l))

\* d[k] on a defaultdict: inserts the default when k is missing
Touch(d, k, default) ==
    IF k \in DOMAIN d THEN d ELSE [x \in DOMAIN d \cup {k} |-> IF x = k THEN default ELSE d[x]]

\* d[k] = v
SetItem(d, k, v) ==
    [x \in DOMAIN d \cup {k} |-> IF x = k THEN v ELSE d[x]]

\* Mutant: d.clear() in place of del d[k]
DelItem_all(d, k) ==
    [x \in {} |-> 0]

\* del d[k] (the caller has checked k in d)
DelItem(d, k) ==
    [x \in DOMAIN d \ {k} |-> d[x]]

EmptyDict == [x \in {} |-> 0]

--------------------------------------------------------------------------
(* add_to_history, statement by statement *)

\* agent.py:210: conversation_history[session_id].append(message)
AppendMessage(h, sid, msg) ==
    LET h1 == Touch(h, sid, <<>>) IN [h1 EXCEPT ![sid] = Append(@, msg)]

\* Mutant: the leading system message is not kept
TrimKeepSystem_dropped(l) ==
    LastN(l, MAX_HISTORY_LENGTH)

\* Mutant: MAX_HISTORY_LENGTH messages are kept behind the system message
TrimKeepSystem_long(l) ==
    <<l[1]>> \o LastN(l, MAX_HISTORY_LENGTH)

\* agent.py:225-226: [history[0]] + history[-(MAX_HISTORY_LENGTH-1):]
TrimKeepSystem(l) ==
    <<l[1]>> \o LastN(l, MAX_HISTORY_LENGTH - 1)

\* Mutant: the oldest messages are kept instead of the most recent
TrimRecent_oldest(l) ==
    SubSeq(l, 1, MAX_HISTORY_LENGTH)

\* agent.py:229: history[-MAX_HISTORY_LENGTH:]
TrimRecent(l) ==
    LastN(l, MAX_HISTORY_LENGTH)

\* Mutant: the history is never trimmed
NeedsTrim_never(l) ==
    FALSE

\* agent.py:221: len(history) > MAX_HISTORY_LENGTH
NeedsTrim(l) ==
    Len(l) > MAX_HISTORY_LENGTH

\* One statement of add_to_history run on the frame f =
\* [hist, meta, apc, sid, msg, ts, exc]; apc is the line about to run, "ret"
\* after the function has returned and "raise" after a statement has raised.
AddStep(f) ==
    LET h1 == Touch(f.hist, f.sid, <<>>)
        m1 == Touch(f.meta, f.sid, EmptyDict)
    IN
    CASE f.apc = "a210" ->
           [f EXCEPT !.hist = AppendMessage(f.hist, f.sid, f.msg), !.apc = "a213"]
      [] f.apc = "a213" ->
           [f EXCEPT !.meta = m1,
                     !.apc = IF "message_count" \notin DOMAIN m1[f.sid]
                             THEN "a214" ELSE "a217"]
      [] f.apc = "a214" ->
           [f EXCEPT !.meta = [m1 EXCEPT ![f.sid] = SetItem(@, "message_count", 0)],
                     !.apc = "a215"]
      [] f.apc = "a215" ->
           [f EXCEPT !.meta = [m1 EXCEPT ![f.sid] = SetItem(@, "started_at", f.ts)],
                     !.apc = "a217"]
      [] f.apc = "a217" ->
           IF "message_count" \in DOMAIN m1[f.sid]
           THEN [f EXCEPT !.meta = [m1 EXCEPT ![f.sid] =
                                       SetItem(@, "message_count", @["message_count"] + 1)],
                          !.apc = "a218"]
           ELSE [f EXCEPT !.meta = m1, !.apc = "raise", !.exc = "KeyError"]
      [] f.apc = "a218" ->
           [f EXCEPT !.meta = [m1 EXCEPT ![f.sid] = SetItem(@, "last_activity", f.ts)],
                     !.apc = "a221"]
      [] f.apc = "a221" ->
           [f EXCEPT !.hist = h1,
                     !.apc = IF NeedsTrim(h1[f.sid]) THEN "a222" ELSE "ret"]
      [] f.apc = "a222" ->
           IF Len(h1[f.sid]) = 0
           THEN [f EXCEPT !.hist = h1, !.apc = "raise", !.exc = "IndexError"]
           ELSE [f EXCEPT !.hist = h1,
                          !.apc = IF IsSystem(h1[f.sid][1]) THEN "a225" ELSE "a229"]
      [] f.apc = "a225" ->
           IF Len(h1[f.sid]) = 0
           THEN [f EXCEPT !.hist = h1, !.apc = "raise", !.exc = "IndexError"]
           ELSE [f EXCEPT !.hist = [h1 EXCEPT ![f.sid] = TrimKeepSystem(@)],
                          !.apc = "ret"]
      [] f.apc = "a229" ->
           [f EXCEPT !.hist = [h1 EXCEPT ![f.sid] = TrimRecent(@)], !.apc = "ret"]

RECURSIVE RunAdd(_)
RunAdd(f) ==
    IF f.apc \in {"ret", "raise"} THEN f ELSE RunAdd(AddStep(f))

\* The frame of a call of add_to_history about to run line 210
AddFrame(h, m, sid, msg, ts) ==
    [hist |-> h, meta |-> m, apc |-> "a210", sid |-> sid, msg |-> msg, ts |-> ts,
     exc |-> "none"]

\* add_to_history run from entry to exit with nothing else running
add_to_history(h, m, sid, role, content, ts) ==
    RunAdd(AddFrame(h, m, sid, MessageFor(role, content), ts))

--------------------------------------------------------------------------
(* clear_conversation, statement by statement *)

\* Mutant: del without the membership test
HasKey_unchecked(d, sid) ==
    TRUE

\* agent.py:276 and 278: the membership test guarding each del
HasKey(d, sid) ==
    sid \in DOMAIN d

\* One statement of clear_conversation on the frame [hist, meta, cpc, sid, exc]
ClearStep(f) ==
    CASE f.cpc = "c276" ->
           [f EXCEPT !.cpc = IF HasKey(f.hist, f.sid) THEN "c277" ELSE "c278"]
      [] f.cpc = "c277" ->
           IF f.sid \in DOMAIN f.hist
           THEN [f EXCEPT !.hist = DelItem(f.hist, f.sid), !.cpc = "c278"]
           ELSE [f EXCEPT !.cpc = "raise", !.exc = "KeyError"]
      [] f.cpc = "c278" ->
           [f EXCEPT !.cpc = IF HasKey(f.meta, f.sid) THEN "c279" ELSE "ret"]
      [] f.cpc = "c279" ->
           IF f.sid \in DOMAIN f.meta
           THEN [f EXCEPT !.meta = DelItem(f.meta, f.sid), !.cpc = "ret"]
           ELSE [f EXCEPT !.cpc = "raise", !.exc = "KeyError"]

RECURSIVE RunClear(_)
RunClear(f) ==
    IF f.cpc \in {"ret", "raise"} THEN f ELSE RunClear(ClearStep(f))

\* clear_conversation run from entry to exit with nothing else running
clear_conversation(h, m, sid) ==
    RunClear([hist |-> h, meta |-> m, cpc |-> "c276", sid |-> sid, exc |-> "none"])

--------------------------------------------------------------------------
(* get_conversation_summary *)

CountType(l, type) ==
    Cardinality({i \in 1..Len(l) : l[i].type = type})

\* agent.py:251-256: whole minutes since started_at, or "unknown"
Duration(metadata, t) ==
    IF "started_at" \in DOMAIN metadata
    THEN LET minutes == ((t - metadata["started_at"]) * SecondsPerTick) \div 60
         IN IF minutes > 0 THEN ToString(minutes) \o " minute(s)"
            ELSE "less than a minute"
    ELSE "unknown"

\* agent.py:241-267.  Both dictionaries are read with .get, which inserts nothing.
get_conversation_summary(h, m, t, sid) ==
    LET metadata == IF sid \in DOMAIN m THEN m[sid] ELSE EmptyDict
        history == IF sid \in DOMAIN h THEN h[sid] ELSE <<>>
    IN IF DOMAIN metadata = {} THEN NoHistory
       ELSE <<"Conversation Summary:",
              "Total messages: " \o
                  ToString(IF "message_count" \in DOMAIN metadata
                           THEN metadata["message_count"] ELSE 0),
              "Your messages: " \o ToString(CountType(history, "HumanMessage")),
              "My responses: " \o ToString(CountType(history, "AIMessage")),
              "Duration: " \o Duration(metadata, t),
              "Memory: " \o ToString(Len(history)) \o " messages stored">>

--------------------------------------------------------------------------
(* The store driven one call at a time *)

\* The clock after some time has passed, or none
ClockReadings ==
    {now, Min(now + 1, MaxNow)}

\* A thread that serves no request.  pc is the line of run_agent or
\* clear_conversation about to run ("add" inside add_to_history, called from
\* line site and about to run line apc).  adds, invoked, model, outcome, retval
\* and arr record what the request did: the messages it appended, the number
\* of model invocations, how the model answered, how the call ended, what it
\* returned and its arrival number.
IdleThread ==
    [pc |-> "idle", op |-> "none", sid |-> "none", input |-> <<>>, site |-> "none",
     apc |-> "none", msg |-> get_system_message, ts |-> 0, exc |-> "none",
     response |-> <<>>, adds |-> <<>>, invoked |-> 0, passed |-> <<>>,
     model |-> "none", outcome |-> "none", retval |-> <<>>, arr |-> 0]

NoOp ==
    [op |-> "none", sid |-> "none", exc |-> "none", had |-> FALSE, again |-> FALSE]

\* The content given to the k-th append of a session (distinct, so that the
\* stored messages can be told apart)
ContentOf(k) ==
    <<"m" \o ToString(k)>>

\* The role of the k-th message of a seeded session: the first two are given,
\* the others are user messages
SeedRole(first, second, k) ==
    IF k = 1 THEN first ELSE IF k = 2 THEN second ELSE "user"

\* The messages of k appends, in order
SeedLog(first, second, k) ==
    [i \in 1..k |-> MessageFor(SeedRole(first, second, i), ContentOf(i))]

\* The store after k <= MAX_HISTORY_LENGTH appends to session sid made at time 0
\* from an empty store: what k calls of add_to_history leave behind, written
\* out because the call depth of running them exceeds the evaluator's stack
SeedStore(sid, first, second, k) ==
    [hist |-> SetItem(EmptyDict, sid, SeedLog(first, second, k)),
     meta |-> SetItem(EmptyDict, sid,
                      [x \in {"message_count", "started_at", "last_activity"} |->
                          IF x = "message_count" THEN k ELSE 0])]

InitStore ==
    /\ now = 0
    /\ th = [t \in Threads |-> IdleThread]
    /\ arrivals = 0
    /\ lastOp = NoOp
    /\ \/ /\ hist = EmptyDict
          /\ meta = EmptyDict
          /\ appended = [s \in Sessions |-> <<>>]
       \/ \E s \in Sessions, first \in Roles, second \in Roles :
            LET seed == SeedStore(s, first, second, SeedLen) IN
            /\ hist = seed.hist
            /\ meta = seed.meta
            /\ appended = [x \in Sessions |->
                             IF x = s THEN SeedLog(first, second, SeedLen) ELSE <<>>]

\* add_to_history(sid, role, content) called with no other call running
StoreAdd(sid, role) ==
    /\ arrivals < MaxOps
    /\ \E ts \in ClockReadings :   \* agent.py:200, some time after the last call
         LET r == add_to_history(hist, meta, sid, role,
                                 ContentOf(Len(appended[sid]) + 1), ts) IN
         /\ hist' = r.hist
         /\ meta' = r.meta
         /\ now' = ts
         /\ appended' = [appended EXCEPT ![sid] = Append(@, r.msg)]
         /\ lastOp' = [op |-> "add", sid |-> sid, exc |-> r.exc,
                       had |-> sid \in DOMAIN hist \cup DOMAIN meta, again |-> FALSE]
    /\ arrivals' = arrivals + 1
    /\ UNCHANGED th

\* clear_conversation(sid) called with no other call running
StoreClear(sid) ==
    /\ arrivals < MaxOps
    /\ LET r == clear_conversation(hist, meta, sid) IN
         /\ hist' = r.hist
         /\ meta' = r.meta
         /\ lastOp' = [op |-> "clear", sid |-> sid, exc |-> r.exc,
                       had |-> sid \in DOMAIN hist \cup DOMAIN meta,
                       again |-> lastOp.op = "clear" /\ lastOp.sid = sid]
    /\ appended' = [appended EXCEPT ![sid] = <<>>]
    /\ arrivals' = arrivals + 1
    /\ UNCHANGED <<now, th>>

NextStore ==
    \/ \E sid \in Sessions, role \in Roles : StoreAdd(sid, role)
    \/ \E sid \in Sessions : StoreClear(sid)

SpecStore == InitStore /\ [][NextStore]_vars

--------------------------------------------------------------------------
(* parse_command and the tool table *)

IsSpace(c) ==
    c \in {" ", "\t", "\n"}

UpperCase == <<"A", "B", "C", "D", "E", "F", "G", "H", "I", "J", "K", "L", "M", "N", "O", "P", "Q", "R", "S", "T", "U", "V", "W", "X", "Y", "Z">>

LowerCase == <<"a", "b", "c", "d", "e", "f", "g", "h", "i", "j", "k", "l", "m", "n", "o", "p", "q", "r", "s", "t", "u", "v", "w", "x", "y", "z">>

\* str.lower on one character
Lower(c) ==
    IF \E i \in 1..Len(UpperCase) : UpperCase[i] = c
    THEN LowerCase[CHOOSE i \in 1..Len(UpperCase) : UpperCase[i] = c]
    ELSE c

RECURSIVE LStrip(_)
LStrip(text) ==
    IF text # <<>> /\ IsSpace(Head(text)) THEN LStrip(Tail(text)) ELSE text

RECURSIVE RStrip(_)
RStrip(text) ==
    IF text # <<>> /\ IsSpace(text[Len(text)])
    THEN RStrip(SubSeq(text, 1, Len(text) - 1)) ELSE text

\* The length of the leading run of characters that are not whitespace
RECURSIVE TokenLen(_)
TokenLen(text) ==
    IF text = <<>> \/ IsSpace(Head(text)) THEN 0 ELSE 1 + TokenLen(Tail(text))

\* agent.py:47-56: strip, split(maxsplit=1), lowercase the first part
parse_command(text) ==
    LET stripped == RStrip(LStrip(text))
        n == TokenLen(stripped)
    IN IF stripped = <<>> THEN [command |-> <<>>, args |-> <<>>]
       ELSE [command |-> [i \in 1..n |-> Lower(stripped[i])],
             args |-> LStrip(SubSeq(stripped, n + 1, Len(stripped)))]

\* agent.py:304-337: the keys of the routing dictionary
ToolKeys ==
    {<<"c", "a", "l", "c">>,
     <<"c", "a", "l", "c", "u", "l", "a", "t", "e">>,
     <<"h", "e", "l", "l", "o">>,
     <<"h", "i">>,
     <<"t", "i", "m", "e">>,
     <<"d", "a", "t", "e">>,
     <<"c", "o", "i", "n">>,
     <<"f", "l", "i", "p">>,
     <<"d", "i", "c", "e">>,
     <<"r", "o", "l", "l">>,
     <<"r", "a", "n", "d", "o", "m">>,
     <<"c", "o", "n", "v", "e", "r", "t">>,
     <<"c", "o", "u", "n", "t">>,
     <<"p", "a", "s", "s", "w", "o", "r", "d">>,
     <<"p", "w", "d">>,
     <<"j", "s", "o", "n">>,
     <<"r", "e", "m", "i", "n", "d", "e", "r">>,
     <<"h", "e", "l", "p">>,
     <<"t", "o", "o", "l", "s">>,
     <<"s", "u", "m", "m", "a", "r", "y">>,
     <<"s", "t", "a", "t", "s">>}

\* agent.py:340: command in tools
IsToolCommand(command) ==
    command \in ToolKeys

RECURSIVE Join(_)
Join(text) ==
    IF text = <<>> THEN "" ELSE Head(text) \o Join(Tail(text))

\* str.split(): the maximal runs of characters that are not whitespace
RECURSIVE Split(_)
Split(text) ==
    LET s == LStrip(text)
        n == TokenLen(s)
    IN IF s = <<>> THEN <<>>
       ELSE <<SubSeq(s, 1, n)>> \o Split(SubSeq(s, n + 1, Len(s)))

Digits == <<"0", "1", "2", "3", "4", "5", "6", "7", "8", "9">>

IsDigit(c) ==
    \E i \in 1..Len(Digits) : Digits[i] = c

DigitValue(c) ==
    (CHOOSE i \in 1..Len(Digits) : Digits[i] = c) - 1

\* The part of an integer literal behind its sign
Unsigned(tok) ==
    IF tok # <<>> /\ Head(tok) \in {"+", "-"} THEN Tail(tok) ELSE tok

\* int(tok) does not raise ValueError: an optional sign and decimal digits,
\* with single underscores allowed between two digits (tok has no whitespace)
IsIntLiteral(tok) ==
    LET body == Unsigned(tok) IN
    /\ body # <<>>
    /\ \A i \in 1..Len(body) :
          \/ IsDigit(body[i])
          \/ /\ body[i] = "_"
             /\ 1 < i /\ i < Len(body)
             /\ IsDigit(body[i - 1]) /\ IsDigit(body[i + 1])

\* The value of the digits of body read after the value acc
RECURSIVE DigitsValue(_, _)
DigitsValue(body, acc) ==
    IF body = <<>> THEN acc
    ELSE IF Head(body) = "_" THEN DigitsValue(Tail(body), acc)
    ELSE DigitsValue(Tail(body), 10 * acc + DigitValue(Head(body)))

\* int(tok) for a literal int accepts
IntValue(tok) ==
    IF Head(tok) = "-" THEN 0 - DigitsValue(Unsigned(tok), 0)
    ELSE DigitsValue(Unsigned(tok), 0)

\* sum(rolls)
RECURSIVE SumSeq(_)
SumSeq(rolls) ==
    IF rolls = <<>> THEN 0 ELSE Head(rolls) + SumSeq(Tail(rolls))

\* ", ".join(map(str, rolls)), as pieces
RECURSIVE RollsStr(_)
RollsStr(rolls) ==
    IF Len(rolls) = 1 THEN <<ToString(Head(rolls))>>
    ELSE <<ToString(Head(rolls)), ", ">> \o RollsStr(Tail(rolls))

RangeSidesMsg == <<"Dice must have between 2 and 100 sides">>

RangeCountMsg == <<"Can roll between 1 and 10 dice at once">>

ValidNumbersMsg == <<"Please provide valid numbers">>

DiceFormatMsg == <<"Format: dice [sides] [count]">>

\* Mutant: a die of one side is accepted
SidesOutOfRange_one(sides) ==
    sides < 1 \/ sides > 100

\* tools.py:127
SidesOutOfRange(sides) ==
    sides < 2 \/ sides > 100

\* tools.py:129
CountOutOfRange(count) ==
    count < 1 \/ count > 10

\* tools.py:135-139: the reply for the rolls made, as pieces (the dice emoji
\* that starts the string is left out)
DiceReply(sides, count, rolls) ==
    IF count = 1
    THEN <<"Rolled 1d", ToString(sides), ": **", ToString(rolls[1]), "**">>
    ELSE <<"Rolled ", ToString(count), "d", ToString(sides), ": [">>
         \o RollsStr(rolls)
         \o <<"] = **", ToString(SumSeq(rolls)), "**">>

\* tools.py:115-141: the ways dice_roll(sides, count) can end for integer
\* arguments.  text is the string returned; rolls (the values random.randint
\* gave, in order) and called (the arguments of this call) are bookkeeping.
dice_roll(sides, count) ==
    IF SidesOutOfRange(sides)
    THEN {[text |-> RangeSidesMsg, rolls |-> <<>>, called |-> <<sides, count>>]}
    ELSE IF CountOutOfRange(count)
    THEN {[text |-> RangeCountMsg, rolls |-> <<>>, called |-> <<sides, count>>]}
    ELSE {[text |-> DiceReply(sides, count, rolls), rolls |-> rolls,
           called |-> <<sides, count>>] : rolls \in [1..count -> 1..sides]}

\* A reply of handle_dice made without calling dice_roll
NoRoll(text) ==
    [text |-> text, rolls |-> <<>>, called |-> <<>>]

\* agent.py:85-107
handle_dice(args) ==
    IF args = <<>> THEN dice_roll(6, 1)
    ELSE LET parts == Split(args) IN
         IF Len(parts) = 1
         THEN IF IsIntLiteral(parts[1]) THEN dice_roll(IntValue(parts[1]), 1)
              ELSE {NoRoll(ValidNumbersMsg)}
         ELSE IF Len(parts) = 2
         THEN IF IsIntLiteral(parts[1]) /\ IsIntLiteral(parts[2])
              THEN dice_roll(IntValue(parts[1]), IntValue(parts[2]))
              ELSE {NoRoll(ValidNumbersMsg)}
         ELSE {NoRoll(DiceFormatMsg)}

\* One element of an input that stands for a run of a thousand "[" (an array
\* nested deeper than json.loads can recurse; the message is under the 2000
\* characters main.py accepts)
DeepNesting == "[[[...[[["

\* agent.py:341: tools[command]() for a command of the table: the set of ways
\* the handler can end, [kind |-> "return", value |-> reply] or
\* [kind |-> "raise"].  The summary handlers read the store; json.loads raises
\* RecursionError, which json_formatter (tools.py:295-300) does not catch, on a
\* deeply nested argument; the dice handler is handle_dice; the other handlers
\* are leaf functions whose reply depends on the command and its arguments
\* alone.
ToolOutcomes(command, args, h, m, t, sid) ==
    LET name == Join(command) IN
    IF name \in {"coin", "flip"}
    THEN {[kind |-> "return", value |-> <<"Coin flip result: **" \o r \o "**">>] :
             r \in {"Heads", "Tails"}}
    ELSE IF name \in {"summary", "stats"}
    THEN {[kind |-> "return", value |-> get_conversation_summary(h, m, t, sid)]}
    ELSE IF name \in {"dice", "roll"}
    THEN {[kind |-> "return", value |-> r.text] : r \in handle_dice(args)}
    ELSE IF name = "json"
    THEN IF args = <<>> THEN {[kind |-> "return", value |-> <<"Provide JSON to format">>]}
         ELSE IF \E i \in 1..Len(args) : args[i] = DeepNesting
         THEN {[kind |-> "raise", value |-> <<>>]}
         ELSE {[kind |-> "return", value |-> <<"Valid JSON">>],
               [kind |-> "return", value |-> <<"Invalid JSON">>]}
    ELSE {[kind |-> "return", value |-> <<"reply of " \o name, Join(args)>>]}

\* The replies the model backend can give
ModelReplies ==
    {<<"model reply">>}

\* The inputs given to run_agent: a tool command, a tool command in upper case
\* with surrounding whitespace and an argument, a tool command whose handler
\* raises, and text that is no command
Inputs ==
    {<<"c", "o", "i", "n">>,
     <<" ", "S", "t", "a", "t", "s", " ", "x", " ">>,
     <<"j", "s", "o", "n", " ", DeepNesting>>,
     <<"c", "o", "i", "n", "s">>}

--------------------------------------------------------------------------
(* Requests served by concurrent threads (main.py runs the Flask development *)
(* server, which serves each request on a thread of its own).  A step is one *)
(* statement that reads or writes the two dictionaries; statements that work *)
(* on locals only are run together with the next such statement.             *)

\* The messages of k user/assistant exchanges, each a "coin" request and its reply
ExchangeLog(k) ==
    [i \in 1..(2 * k) |->
        IF i % 2 = 1 THEN MessageFor("user", <<"c", "o", "i", "n">>)
        ELSE MessageFor("assistant", <<"Coin flip result: **Heads**">>)]

\* The store entries of a session after the appends of log, made at time 0
\* (the history never started with a system message)
HistoryAfter(log) ==
    LastN(log, MAX_HISTORY_LENGTH)

MetadataAfter(log) ==
    [x \in {"message_count", "started_at", "last_activity"} |->
        IF x = "message_count" THEN Len(log) ELSE 0]

Init ==
    /\ now = 0
    /\ th = [t \in Threads |-> IdleThread]
    /\ arrivals = 0
    /\ lastOp = NoOp
    /\ \E seeded \in {{}, Sessions} :
         /\ appended = [s \in Sessions |->
                           IF s \in seeded THEN ExchangeLog(SeedPairs) ELSE <<>>]
         /\ hist = [s \in seeded |-> HistoryAfter(ExchangeLog(SeedPairs))]
         /\ meta = [s \in seeded |-> MetadataAfter(ExchangeLog(SeedPairs))]

\* The locals of a thread whose call has ended
Ended(rec, outcome, retval) ==
    [rec EXCEPT !.pc = "idle", !.outcome = outcome, !.retval = retval,
                !.site = "none", !.apc = "none", !.msg = get_system_message,
                !.ts = 0, !.response = <<>>, !.passed = <<>>]

\* main.py:55: a /chat request enters run_agent(user_input, session_id)
StartRun(t, sid, input) ==
    /\ arrivals < Len(ThreadOrder)
    /\ t = ThreadOrder[arrivals + 1]
    /\ arrivals = 0 => sid = FirstSession
    /\ arrivals' = arrivals + 1
    /\ th' = [th EXCEPT ![t] = [IdleThread EXCEPT !.pc = "r298", !.op = "run",
                                                  !.sid = sid, !.input = input,
                                                  !.arr = arrivals + 1]]
    /\ now' \in ClockReadings
    /\ UNCHANGED <<hist, meta, appended, lastOp>>

\* main.py:72: a /clear request enters clear_conversation(session_id)
StartClear(t, sid) ==
    /\ arrivals < Len(ThreadOrder)
    /\ t = ThreadOrder[arrivals + 1]
    /\ arrivals = 0 => sid = FirstSession
    /\ arrivals' = arrivals + 1
    /\ th' = [th EXCEPT ![t] = [IdleThread EXCEPT !.pc = "c276", !.op = "clear",
                                                  !.sid = sid,
                                                  !.arr = arrivals + 1]]
    /\ now' \in ClockReadings
    /\ UNCHANGED <<hist, meta, appended, lastOp>>

\* The role and content run_agent gives add_to_history at each call site
\* (agent.py:298, 342, 358, 365)
AddArgs(rec) ==
    CASE rec.pc = "r298" -> [role |-> "user", content |-> rec.input]
      [] rec.pc = "r342" -> [role |-> "assistant", content |-> rec.response]
      [] rec.pc = "r358" -> [role |-> "assistant", content |-> rec.response]
      [] rec.pc = "r365" -> [role |-> "assistant", content |-> ErrorMsg]

\* Where run_agent continues when add_to_history, called from site, has
\* returned: line 301 after the user message, the return statement otherwise
\* (agent.py:343, 360, 366)
AfterAdd(rec) ==
    IF rec.site = "r298" THEN [rec EXCEPT !.pc = "r301", !.site = "none", !.apc = "none"]
    ELSE Ended(rec, "returned", rec.response)

\* Where run_agent continues when add_to_history, called from site, has
\* raised: the except clause (agent.py:362-365) for a call made inside the try
\* block; out of run_agent for the call made by the except clause itself
AfterRaise(rec) ==
    IF rec.site = "r365" THEN Ended(rec, "raised", <<>>)
    ELSE [rec EXCEPT !.pc = "r365", !.site = "none", !.apc = "none"]

\* The thread's locals after one statement of add_to_history left frame f
AfterAddStep(rec, f) ==
    LET r == [rec EXCEPT !.apc = f.apc, !.exc = f.exc] IN
    IF f.apc = "ret" THEN AfterAdd(r)
    ELSE IF f.apc = "raise" THEN AfterRaise(r)
    ELSE r

\* agent.py:298, 342, 358, 365 with 200-210: run_agent calls add_to_history,
\* which reads the clock, builds the message and appends it
CallAdd(t) ==
    /\ th[t].pc \in {"r298", "r342", "r358", "r365"}
    /\ LET ts == now
           a == AddArgs(th[t])
           msg == [MessageFor(a.role, a.content) EXCEPT !.by = th[t].arr]
           f == AddStep(AddFrame(hist, meta, th[t].sid, msg, ts))
           rec == [th[t] EXCEPT !.site = th[t].pc, !.pc = "add", !.msg = msg,
                                !.ts = ts, !.adds = Append(@, msg),
                                !.response = IF th[t].pc = "r365" THEN ErrorMsg ELSE @]
       IN /\ hist' = f.hist
          /\ meta' = f.meta
          /\ th' = [th EXCEPT ![t] = AfterAddStep(rec, f)]
    /\ UNCHANGED <<now, arrivals, appended, lastOp>>

\* agent.py:213-229: the next statement of add_to_history
AddStmt(t) ==
    /\ th[t].pc = "add"
    /\ LET f == AddStep([hist |-> hist, meta |-> meta, apc |-> th[t].apc,
                         sid |-> th[t].sid, msg |-> th[t].msg, ts |-> th[t].ts,
                         exc |-> "none"])
       IN /\ hist' = f.hist
          /\ meta' = f.meta
          /\ th' = [th EXCEPT ![t] = AfterAddStep(th[t], f)]
    /\ UNCHANGED <<now, arrivals, appended, lastOp>>

\* agent.py:301-341: parse the input and, when the command is in the table,
\* run its handler
ToolExec(t) ==
    /\ th[t].pc = "r301"
    /\ LET c == parse_command(th[t].input) IN
         /\ IsToolCommand(c.command)
         /\ \E o \in ToolOutcomes(c.command, c.args, hist, meta, now, th[t].sid) :
              th' = [th EXCEPT ![t] =
                        IF o.kind = "return"
                        THEN [@ EXCEPT !.pc = "r342", !.response = o.value]
                        ELSE [@ EXCEPT !.pc = "r365"]]
    /\ UNCHANGED <<hist, meta, now, arrivals, appended, lastOp>>

\* agent.py:346-350: the stored history, behind the system instruction when
\* it is empty or does not start with a system message
ModelInput(h, sid) ==
    LET history == IF sid \in DOMAIN h THEN h[sid] ELSE <<>> IN
    IF history = <<>> \/ ~IsSystem(history[1])
    THEN <<get_system_message>> \o history
    ELSE history

\* agent.py:301-355: parse the input and, when the command is not in the
\* table, invoke the model backend on the history
ModelCall(t) ==
    /\ th[t].pc = "r301"
    /\ ~IsToolCommand(parse_command(th[t].input).command)
    /\ th' = [th EXCEPT ![t] = [@ EXCEPT !.pc = "r355",
                                         !.passed = ModelInput(hist, th[t].sid),
                                         !.invoked = @ + 1,
                                         !.model = "waiting"]]
    /\ UNCHANGED <<hist, meta, now, arrivals, appended, lastOp>>

\* agent.py:355-357: model.invoke returns a reply
ModelReturns(t) ==
    /\ th[t].pc = "r355"
    /\ \E reply \in ModelReplies :
         th' = [th EXCEPT ![t] = [@ EXCEPT !.pc = "r358", !.response = reply,
                                           !.model = "replied"]]
    /\ UNCHANGED <<hist, meta, now, arrivals, appended, lastOp>>

\* agent.py:355, 362-364: model.invoke raises and the except clause takes over
ModelRaises(t) ==
    /\ th[t].pc = "r355"
    /\ th' = [th EXCEPT ![t] = [@ EXCEPT !.pc = "r365", !.model = "raised"]]
    /\ UNCHANGED <<hist, meta, now, arrivals, appended, lastOp>>

\* agent.py:276-280: the next statement of clear_conversation
ClearStmt(t) ==
    /\ th[t].pc \in {"c276", "c277", "c278", "c279"}
    /\ LET f == ClearStep([hist |-> hist, meta |-> meta, cpc |-> th[t].pc,
                           sid |-> th[t].sid, exc |-> "none"])
       IN /\ hist' = f.hist
          /\ meta' = f.meta
          /\ th' = [th EXCEPT ![t] =
                       IF f.cpc = "ret" THEN Ended(th[t], "returned", <<>>)
                       ELSE IF f.cpc = "raise"
                       THEN Ended([th[t] EXCEPT !.exc = f.exc], "raised", <<>>)
                       ELSE [@ EXCEPT !.pc = f.cpc]]
    /\ UNCHANGED <<now, arrivals, appended, lastOp>>

\* The statements a thread runs by itself
ThreadStep(t) ==
    \/ CallAdd(t)
    \/ AddStmt(t)
    \/ ToolExec(t)
    \/ ModelCall(t)
    \/ ClearStmt(t)

Next ==
    \/ \E t \in Threads, sid \in Sessions, input \in Inputs : StartRun(t, sid, input)
    \/ \E t \in Threads, sid \in Sessions : StartClear(t, sid)
    \/ \E t \in Threads : ThreadStep(t)
    \/ \E t \in Threads : ModelReturns(t)
    \/ \E t \in Threads : ModelRaises(t)

Spec == Init /\ [][Next]_vars

\* The scheduler runs every thread that has a statement to run; nothing makes
\* the model backend answer
FairSpec == Spec /\ \A t \in Threads : WF_vars(ThreadStep(t))

--------------------------------------------------------------------------
(* Calls made one at a time: a call starts when the call before it has     *)
(* ended.  The statements of a call are those of the concurrent model, run *)
(* by one thread.                                                          *)

MaxCalls == 2        \* calls in one run of the models of non-overlapping calls

\* The thread that serves the calls
SeqThread == ThreadOrder[1]

\* No call is running
AllIdle ==
    \A t \in Threads : th[t].pc = "idle"

\* The messages appended to each session since it was created or last
\* cleared: those logged when the last call started and those the last call
\* appended
AppendedSince ==
    [s \in Sessions |->
        appended[s] \o (IF th[SeqThread].op = "run" /\ th[SeqThread].sid = s
                        THEN th[SeqThread].adds ELSE <<>>)]

\* main.py:55: run_agent(input, sid) is entered, no other call running
SeqStartRun(sid, input) ==
    /\ AllIdle
    /\ arrivals < MaxCalls
    /\ arrivals' = arrivals + 1
    /\ th' = [th EXCEPT ![SeqThread] =
                 [IdleThread EXCEPT !.pc = "r298", !.op = "run", !.sid = sid,
                                    !.input = input, !.arr = arrivals + 1]]
    /\ now' \in ClockReadings
    /\ appended' = AppendedSince
    /\ UNCHANGED <<hist, meta, lastOp>>

\* main.py:72: clear_conversation(sid) is entered, no other call running
SeqStartClear(sid) ==
    /\ AllIdle
    /\ arrivals < MaxCalls
    /\ arrivals' = arrivals + 1
    /\ th' = [th EXCEPT ![SeqThread] =
                 [IdleThread EXCEPT !.pc = "c276", !.op = "clear", !.sid = sid,
                                    !.arr = arrivals + 1]]
    /\ now' \in ClockReadings
    /\ appended' = [AppendedSince EXCEPT ![sid] = <<>>]
    /\ UNCHANGED <<hist, meta, lastOp>>

\* agent.py:191-229: add_to_history(sid, role, content) called from outside
\* run_agent, no other call running
DirectAdd(sid, role) ==
    /\ AllIdle
    /\ arrivals < MaxCalls
    /\ arrivals' = arrivals + 1
    /\ \E ts \in ClockReadings :
         LET r == add_to_history(hist, meta, sid, role,
                                 ContentOf(Len(AppendedSince[sid]) + 1), ts) IN
         /\ hist' = r.hist
         /\ meta' = r.meta
         /\ now' = ts
         /\ appended' = [AppendedSince EXCEPT ![sid] = Append(@, r.msg)]
         /\ th' = [th EXCEPT ![SeqThread] =
                      [IdleThread EXCEPT !.op = "add", !.sid = sid, !.exc = r.exc,
                                         !.outcome = IF r.exc = "none" THEN "returned"
                                                     ELSE "raised",
                                         !.arr = arrivals + 1]]
    /\ UNCHANGED lastOp

\* The statements of the running call, and the answer of the model backend
SeqStep ==
    \/ ThreadStep(SeqThread)
    \/ ModelReturns(SeqThread)
    \/ ModelRaises(SeqThread)

\* A session driven by run_agent and clear_conversation calls only
NextCalls ==
    \/ \E sid \in Sessions, input \in Inputs : SeqStartRun(sid, input)
    \/ \E sid \in Sessions : SeqStartClear(sid)
    \/ SeqStep

SpecCalls == Init /\ [][NextCalls]_vars

\* The store is empty, or the first session holds SeedLen messages of which
\* the first has any role
InitDrive ==
    /\ now = 0
    /\ th = [t \in Threads |-> IdleThread]
    /\ arrivals = 0
    /\ lastOp = NoOp
    /\ \/ /\ hist = EmptyDict
          /\ meta = EmptyDict
          /\ appended = [s \in Sessions |-> <<>>]
       \/ \E first \in Roles :
            LET seed == SeedStore(FirstSession, first, "assistant", SeedLen) IN
            /\ hist = seed.hist
            /\ meta = seed.meta
            /\ appended = [x \in Sessions |->
                             IF x = FirstSession
                             THEN SeedLog(first, "assistant", SeedLen) ELSE <<>>]

\* Sessions driven by add_to_history, run_agent and clear_conversation calls
NextDrive ==
    \/ \E sid \in Sessions, input \in Inputs : SeqStartRun(sid, input)
    \/ \E sid \in Sessions : SeqStartClear(sid)
    \/ \E sid \in Sessions, role \in Roles : DirectAdd(sid, role)
    \/ SeqStep

SpecDrive == InitDrive /\ [][NextDrive]_vars

--------------------------------------------------------------------------
(* A dice command: the text of one request goes through parse_command and *)
(* the handler of the command, handle_dice                                *)

MaxRollOutcomes == 1100    \* no request has more ways to fall than this

DiceSides == {-1, 0, 1, 2, 3, 6, 100, 101}

DiceCounts == {0, 1, 2, 3, 10, 11}

\* Arguments int() rejects
JunkTokens ==
    {<<"x">>, <<"3", ".", "5">>, <<"1", "_", "_", "0">>, <<"6", "d">>, <<"-">>}

\* sides to the power count, cut off above cap
RECURSIVE CappedPow(_, _, _)
CappedPow(sides, count, cap) ==
    IF count <= 0 THEN 1
    ELSE LET p == sides * CappedPow(sides, count - 1, cap) IN
         IF p > cap THEN cap + 1 ELSE p

\* The integer arguments of a request: none, sides, sides and count, or one
\* argument too many
DiceIntLists ==
    {<<>>}
    \cup {<<s>> : s \in DiceSides}
    \cup {p \in DiceSides \X DiceCounts :
             \/ p[1] \notin 2..100
             \/ p[2] \notin 1..10
             \/ CappedPow(p[1], p[2], MaxRollOutcomes) <= MaxRollOutcomes}
    \cup {<<6, 3, 1>>}

\* A request: its integer arguments ints, written with a plus sign when plus
\* holds and they are not negative, the argument at position junkAt (if not 0)
\* replaced by the token junk
DiceRequests ==
    {[ints |-> l, plus |-> p, junkAt |-> 0, junk |-> <<>>] :
        l \in DiceIntLists, p \in BOOLEAN}
    \cup {[ints |-> l, plus |-> FALSE, junkAt |-> k, junk |-> j] :
            l \in {x \in DiceIntLists : Len(x) \in 1..2}, k \in 1..2, j \in JunkTokens}

\* str(n) for a natural number, one character per element
RECURSIVE NatToChars(_)
NatToChars(n) ==
    IF n < 10 THEN <<Digits[n + 1]>>
    ELSE NatToChars(n \div 10) \o <<Digits[(n % 10) + 1]>>

IntToChars(n, plus) ==
    IF n < 0 THEN <<"-">> \o NatToChars(0 - n)
    ELSE IF plus THEN <<"+">> \o NatToChars(n)
    ELSE NatToChars(n)

\* The arguments of request q as typed, a space and a tab between two of them
RECURSIVE DiceArgsFrom(_, _)
DiceArgsFrom(q, i) ==
    IF i > Len(q.ints) THEN <<>>
    ELSE (IF i = q.junkAt THEN q.junk ELSE IntToChars(q.ints[i], q.plus))
         \o (IF i < Len(q.ints) THEN <<" ", "\t">> ELSE <<>>)
         \o DiceArgsFrom(q, i + 1)

\* The message of request q as main.py hands it to run_agent
DiceInput(q) ==
    <<" ", "R", "o", "l", "l", " ">> \o DiceArgsFrom(q, 1) \o <<" ">>

InitDice ==
    /\ now = 0
    /\ th = [t \in Threads |-> IdleThread]
    /\ arrivals = 0
    /\ hist = EmptyDict
    /\ meta = EmptyDict
    /\ appended = [s \in Sessions |-> <<>>]
    /\ \E q \in {x \in DiceRequests : x.junkAt <= Len(x.ints)} :
         lastOp = [op |-> "none", request |-> q]

\* agent.py:301, 322-323, 341: the command is parsed and its handler called
DiceCall ==
    /\ lastOp.op = "none"
    /\ LET c == parse_command(DiceInput(lastOp.request)) IN
         /\ Join(c.command) \in {"dice", "roll"}
         /\ \E r \in handle_dice(c.args) :
              lastOp' = [op |-> "handle_dice", request |-> lastOp.request, result |-> r]
    /\ UNCHANGED <<hist, meta, now, th, arrivals, appended>>

NextDice ==
    DiceCall

SpecDice == InitDice /\ [][NextDice]_vars

--------------------------------------------------------------------------
(* Claims about the store driven one call at a time (SpecStore) *)

\* The position in the log of appended messages of the i-th stored message
LogPos(s, i) ==
    CHOOSE p \in 1..Len(appended[s]) : appended[s][p] = hist[s][i]

\* C1: after N add_to_history calls on a session with no clear in between, the
\* stored history has length min(N, 30), its messages are appended messages in
\* the order of their appending, and when the first stored message is not a
\* system message the stored history is exactly the last min(N, 30) appended.
C1_HistoryIsBoundedTail ==
    \A s \in Sessions :
        LET N == Len(appended[s]) IN
        N > 0 =>
            /\ s \in DOMAIN hist
            /\ Len(hist[s]) = Min(N, MAX_HISTORY_LENGTH)
            /\ \A i \in 1..Len(hist[s]) :
                   \E p \in 1..N : appended[s][p] = hist[s][i]
            /\ \A i \in 1..(Len(hist[s]) - 1) : LogPos(s, i) < LogPos(s, i + 1)
            /\ ~IsSystem(hist[s][1]) =>
                   hist[s] = LastN(appended[s], Min(N, MAX_HISTORY_LENGTH))

\* A session trimmed more than once whose first stored message is no system message
C1_Witness ==
    \E s \in Sessions :
        /\ Len(appended[s]) > MAX_HISTORY_LENGTH + 1
        /\ s \in DOMAIN hist
        /\ ~IsSystem(hist[s][1])
        /\ lastOp.op = "add" /\ lastOp.sid = s

\* C2: once a system message is first in a session's stored history, every
\* add_to_history call on the session leaves that same message first, also
\* when the call trims the history; only clear_conversation removes it.
C2_SystemMessageStaysFirst ==
    [][\A s \in Sessions :
          (/\ s \in DOMAIN hist
           /\ Len(hist[s]) > 0
           /\ IsSystem(hist[s][1])
           /\ ~(lastOp'.op = "clear" /\ lastOp'.sid = s))
          => (/\ s \in DOMAIN hist'
              /\ Len(hist'[s]) > 0
              /\ hist'[s][1] = hist[s][1])]_vars

\* A session pushed past the limit more than once that still starts with the
\* system message it started with
C2_Witness ==
    \E s \in Sessions :
        /\ Len(appended[s]) > MAX_HISTORY_LENGTH + 1
        /\ s \in DOMAIN hist
        /\ IsSystem(hist[s][1])
        /\ Len(hist[s]) = MAX_HISTORY_LENGTH
        /\ ~IsSystem(hist[s][2])
        /\ lastOp.op = "add" /\ lastOp.sid = s

\* C6: clear_conversation(s) raises nothing whatever the state of s was, and
\* leaves no history entry and no metadata entry for s, so that
\* get_conversation_summary(s) answers "No conversation history".
C6_ClearIsTotal ==
    lastOp.op = "clear" =>
        /\ lastOp.exc = "none"
        /\ lastOp.sid \notin DOMAIN hist
        /\ lastOp.sid \notin DOMAIN meta
        /\ get_conversation_summary(hist, meta, now, lastOp.sid) = NoHistory

\* clear_conversation called twice in a row on a session
C6_Witness ==
    /\ lastOp.op = "clear"
    /\ lastOp.again
    /\ ~lastOp.had

--------------------------------------------------------------------------
(* Claims about requests served concurrently (Spec, FairSpec) *)

\* The call of thread t is a run_agent call that has ended
RunEnded(t) ==
    th[t].op = "run" /\ th[t].pc = "idle"

UserMessageOf(t) ==
    [type |-> "HumanMessage", content |-> th[t].input, by |-> th[t].arr]

AssistantMessageOf(t, content) ==
    [type |-> "AIMessage", content |-> content, by |-> th[t].arr]

C4_ModelFailureGivesErrorReply ==
    \A t \in Threads :
        (RunEnded(t) /\ th[t].model = "raised") =>
            /\ th[t].outcome = "returned"
            /\ th[t].retval = ErrorMsg
            /\ th[t].adds # <<>>
            /\ th[t].adds[Len(th[t].adds)] = AssistantMessageOf(t, ErrorMsg)

\* C5: a run_agent call whose command is in the tool table never invokes the
\* model backend; any other call invokes it exactly once.
C5_ModelInvokedIffNoTool ==
    \A t \in Threads :
        th[t].op = "run" =>
            IF IsToolCommand(parse_command(th[t].input).command)
            THEN th[t].invoked = 0
            ELSE th[t].pc = "idle" => th[t].invoked = 1

\* The store operations a request made, in its order
OpsOf(t) ==
    IF th[t].op = "clear"
    THEN <<[kind |-> "clear", sid |-> th[t].sid, msg |-> get_system_message]>>
    ELSE [i \in 1..Len(th[t].adds) |->
             [kind |-> "add", sid |-> th[t].sid, msg |-> th[t].adds[i]]]

\* The ways of running two sequences of operations one operation at a time
RECURSIVE Merges(_, _)
Merges(a, b) ==
    IF a = <<>> THEN {b}
    ELSE IF b = <<>> THEN {a}
    ELSE {<<Head(a)>> \o m : m \in Merges(Tail(a), b)}
         \cup {<<Head(b)>> \o m : m \in Merges(a, Tail(b))}

\* The store after running the operations one at a time
RECURSIVE Replay(_, _)
Replay(st, ops) ==
    IF ops = <<>> THEN st
    ELSE LET o == Head(ops)
             r == IF o.kind = "add"
                  THEN RunAdd(AddFrame(st.hist, st.meta, o.sid, o.msg, 0))
                  ELSE clear_conversation(st.hist, st.meta, o.sid)
         IN Replay([hist |-> r.hist, meta |-> r.meta], Tail(ops))

\* The store the run started from
InitialStore ==
    LET seeded == {s \in Sessions : appended[s] # <<>>} IN
    [hist |-> [s \in seeded |-> HistoryAfter(appended[s])],
     meta |-> [s \in seeded |-> MetadataAfter(appended[s])]]

\* The store holds the histories and the message counts of st
SameStore(st) ==
    /\ DOMAIN hist = DOMAIN st.hist
    /\ DOMAIN meta = DOMAIN st.meta
    /\ \A s \in DOMAIN hist : hist[s] = st.hist[s]
    /\ \A s \in DOMAIN meta :
          /\ DOMAIN meta[s] = DOMAIN st.meta[s]
          /\ "message_count" \in DOMAIN meta[s] =>
                 meta[s]["message_count"] = st.meta[s]["message_count"]

\* C7: when concurrent requests have ended, the histories and the metadata
\* are those of running their add_to_history and clear_conversation calls one
\* at a time in some order (each request's calls in its own order).
C7_MutationsAreSerialized ==
    (\A t \in Threads : th[t].arr # 0 /\ th[t].pc = "idle") =>
        \E order \in Merges(OpsOf(ThreadOrder[1]), OpsOf(ThreadOrder[2])) :
            SameStore(Replay(InitialStore, order))

\* C8: of two run_agent calls on one session, the messages of the call that
\* entered run_agent first precede the messages of the same role of the other
\* call in the stored history.
C8_HistoryFollowsArrivalOrder ==
    \A a, b \in Threads :
        (/\ th[a].op = "run" /\ th[b].op = "run"
         /\ th[a].sid = th[b].sid
         /\ th[a].arr < th[b].arr
         /\ th[a].sid \in DOMAIN hist)
        => LET h == hist[th[a].sid] IN
           \A i, j \in 1..Len(h) :
               (h[i].by = th[a].arr /\ h[j].by = th[b].arr /\ h[i].type = h[j].type)
               => i < j

\* The entry of session s in dictionary d is the same in d2
SameEntry(d, d2, s) ==
    /\ (s \in DOMAIN d) = (s \in DOMAIN d2)
    /\ s \in DOMAIN d => d[s] = d2[s]

\* The dictionary d without the entries of sessions other than s
Only(d, s) ==
    [x \in DOMAIN d \cap {s} |-> d[x]]

\* The statement thread t is about to run does to the entries of its session
\* what it would do with the entries of all other sessions removed
ActsOnOwnEntries(t) ==
    LET s == th[t].sid IN
    /\ th[t].pc = "add" =>
           LET f == [hist |-> hist, meta |-> meta, apc |-> th[t].apc, sid |-> s,
                     msg |-> th[t].msg, ts |-> th[t].ts, exc |-> "none"]
               full == AddStep(f)
               own == AddStep([f EXCEPT !.hist = Only(hist, s), !.meta = Only(meta, s)])
           IN /\ SameEntry(full.hist, own.hist, s)
              /\ SameEntry(full.meta, own.meta, s)
              /\ full.apc = own.apc
    /\ th[t].pc \in {"c276", "c277", "c278", "c279"} =>
           LET f == [hist |-> hist, meta |-> meta, cpc |-> th[t].pc, sid |-> s,
                     exc |-> "none"]
               full == ClearStep(f)
               own == ClearStep([f EXCEPT !.hist = Only(hist, s), !.meta = Only(meta, s)])
           IN /\ SameEntry(full.hist, own.hist, s)
              /\ SameEntry(full.meta, own.meta, s)
              /\ full.cpc = own.cpc
    /\ th[t].pc = "r301" =>
           /\ get_conversation_summary(hist, meta, now, s)
                  = get_conversation_summary(Only(hist, s), Only(meta, s), now, s)
           /\ ModelInput(hist, s) = ModelInput(Only(hist, s), s)

\* C9: a step of a request for one session leaves the history and the
\* metadata of every other session as they were, and what the step does to
\* its own session does not depend on the entries of the other sessions.
C9_SessionsDoNotInterfere ==
    [][/\ \A b \in Sessions :
            (\A t \in Threads : th'[t] # th[t] => th'[t].sid # b)
            => SameEntry(hist, hist', b) /\ SameEntry(meta, meta', b)
       /\ \A t \in Threads : ActsOnOwnEntries(t)]_vars

\* A request has cleared one session and a request has appended to a session
\* while another session held a full history
C9_Witness ==
    \E a, b \in Sessions :
        /\ a # b
        /\ b \in DOMAIN hist /\ b \in DOMAIN meta
        /\ Len(hist[b]) = MAX_HISTORY_LENGTH
        /\ a \notin DOMAIN hist
        /\ \E t \in Threads :
              th[t].op = "clear" /\ th[t].sid = a /\ th[t].pc = "idle"
        /\ \E t \in Threads :
              th[t].op = "run" /\ th[t].sid = b /\ th[t].pc = "idle"
        /\ appended[a] # <<>>

\* C10: every run_agent call that waits for the model backend ends.
C10_EveryCallReturns ==
    \A t \in Threads : (th[t].pc = "r355") ~> (th[t].pc = "idle")

\* The stored history of session sid as conversation_history.get reads it
StoredHistory(h, sid) ==
    IF sid \in DOMAIN h THEN h[sid] ELSE <<>>

\* The list thread t hands to the model starts with a system message, and is
\* the fixed system instruction followed by the stored history stored when that
\* is empty or starts with no system message
StartsWithInstruction(list, stored) ==
    /\ list # <<>>
    /\ IsSystem(list[1])
    /\ (stored = <<>> \/ ~IsSystem(stored[1])) => list = <<get_system_message>> \o stored

\* C12: the step in which a run_agent call builds the message list and hands
\* it to the model backend leaves the stored histories and the metadata as
\* they were; the list starts with a system message, is the fixed system
\* instruction followed by the stored history when that is empty or starts
\* with no system message, and ends with the user message of the call.
C12_ModelSeesInstructionThenHistory ==
    [][\A t \in Threads :
          (th[t].pc = "r301" /\ th'[t].pc = "r355") =>
              LET list == th'[t].passed IN
              /\ hist' = hist
              /\ meta' = meta
              /\ StartsWithInstruction(list, StoredHistory(hist, th[t].sid))
              /\ list[Len(list)] = UserMessageOf(t)]_vars

--------------------------------------------------------------------------
(* Claims about calls made one at a time (SpecCalls, SpecDrive) *)

\* The list l alternates user and assistant messages, starting with a user
\* message
Alternates(l) ==
    \A i \in 1..Len(l) :
        l[i].type = (IF i % 2 = 1 THEN "HumanMessage" ELSE "AIMessage")

\* C13: with run_agent and clear_conversation calls made one at a time, no
\* call takes the branch of the trim that keeps a system message, and when a
\* run_agent call has ended it has returned, and the stored history of its
\* session holds no system message, has even length of at most 30, alternates
\* user and assistant messages starting with a user message, and ends with the
\* assistant message carrying the returned reply.
C13_HistoryIsExchanges ==
    /\ \A t \in Threads : th[t].apc # "a225"
    /\ (AllIdle /\ th[SeqThread].op = "run") =>
           LET s == th[SeqThread].sid
               l == StoredHistory(hist, s)
           IN
           /\ th[SeqThread].outcome = "returned"
           /\ s \in DOMAIN hist
           /\ \A i \in 1..Len(l) : ~IsSystem(l[i])
           /\ Len(l) % 2 = 0
           /\ Len(l) > 0
           /\ Len(l) <= MAX_HISTORY_LENGTH
           /\ Alternates(l)
           /\ l[Len(l)] = AssistantMessageOf(SeqThread, th[SeqThread].retval)

\* A run_agent call has ended on a session that held 30 messages: both its
\* appends trimmed the history
C13_Witness ==
    /\ AllIdle
    /\ th[SeqThread].op = "run"
    /\ Len(AppendedSince[th[SeqThread].sid]) > MAX_HISTORY_LENGTH + 1
    /\ Len(StoredHistory(hist, th[SeqThread].sid)) = MAX_HISTORY_LENGTH
    /\ th[SeqThread].model = "replied"

\* The two lines of a summary that report the total and the memory size
ReportsCounts(summary, total, stored) ==
    /\ Len(summary) = 6
    /\ summary[2] = "Total messages: " \o ToString(total)
    /\ summary[6] = "Memory: " \o ToString(stored) \o " messages stored"

\* C14: with add_to_history, run_agent and clear_conversation calls made one
\* at a time, between calls a session has a history and metadata exactly when
\* messages were appended to it since it was created or last cleared; its
\* message_count is the number of those messages, trimmed or not, its stored
\* history has min(message_count, 30) messages, and get_conversation_summary
\* reports message_count as the total and the stored length as the memory
\* size, also when run_agent calls it for a summary command (before the reply
\* is appended).
C14_MessageCountIsTotalAppended ==
    AllIdle =>
        /\ \A s \in Sessions :
              LET N == Len(AppendedSince[s]) IN
              /\ (s \in DOMAIN hist) = (N > 0)
              /\ (s \in DOMAIN meta) = (N > 0)
              /\ N > 0 =>
                    /\ "message_count" \in DOMAIN meta[s]
                    /\ meta[s]["message_count"] = N
                    /\ meta[s]["message_count"] >= Len(hist[s])
                    /\ Len(hist[s]) = Min(meta[s]["message_count"], MAX_HISTORY_LENGTH)
                    /\ ReportsCounts(get_conversation_summary(hist, meta, now, s),
                                     meta[s]["message_count"], Len(hist[s]))
        /\ (/\ th[SeqThread].op = "run"
            /\ Join(parse_command(th[SeqThread].input).command) \in {"summary", "stats"})
           => LET N == Len(AppendedSince[th[SeqThread].sid]) IN
              ReportsCounts(th[SeqThread].retval, N - 1, Min(N - 1, MAX_HISTORY_LENGTH))

\* A summary command has ended on a session whose history starts with a
\* system message and has been trimmed: 31 messages appended, 30 stored
C14_Witness ==
    /\ AllIdle
    /\ th[SeqThread].op = "run"
    /\ Join(parse_command(th[SeqThread].input).command) = "stats"
    /\ th[SeqThread].sid \in DOMAIN hist
    /\ IsSystem(hist[th[SeqThread].sid][1])
    /\ meta[th[SeqThread].sid]["message_count"] = MAX_HISTORY_LENGTH + 1
    /\ Len(hist[th[SeqThread].sid]) = MAX_HISTORY_LENGTH

--------------------------------------------------------------------------
(* Claims about the dice command (SpecDice) *)

\* C11: handle_dice calls dice_roll(6, 1) when given no argument,
\* dice_roll(sides, 1) when given one integer and dice_roll(sides, count) when
\* given two, and answers "Please provide valid numbers" without rolling when
\* one of one or two arguments is no integer; dice_roll answers with a range
\* error and rolls nothing when sides is outside 2..100 or count outside 1..10,
\* and otherwise lists exactly count rolls, each in 1..sides, and for count > 1
\* reports their sum as the total.
C11_DiceRollsWithinRange ==
    lastOp.op = "handle_dice" =>
        LET q == lastOp.request
            r == lastOp.result
            n == Len(q.ints)
        IN
        /\ (n <= 2 /\ q.junkAt = 0) =>
               r.called = (IF n = 0 THEN <<6, 1>>
                           ELSE IF n = 1 THEN <<q.ints[1], 1>>
                           ELSE q.ints)
        /\ (n \in 1..2 /\ q.junkAt # 0) =>
               r.text = ValidNumbersMsg /\ r.rolls = <<>> /\ r.called = <<>>
        /\ r.called # <<>> =>
               LET sides == r.called[1]
                   count == r.called[2]
               IN
               IF sides \notin 2..100 \/ count \notin 1..10
               THEN r.text \in {RangeSidesMsg, RangeCountMsg} /\ r.rolls = <<>>
               ELSE /\ Len(r.rolls) = count
                    /\ \A i \in 1..count : r.rolls[i] \in 1..sides
                    /\ IF count = 1
                       THEN Len(r.text) = 5 /\ r.text[4] = ToString(r.rolls[1])
                       ELSE /\ Len(r.text) = 2 * count + 7
                            /\ \A i \in 1..count :
                                  r.text[4 + 2 * i] = ToString(r.rolls[i])
                            /\ r.text[2 * count + 6] = ToString(SumSeq(r.rolls))

\* Three dice of six sides asked for as "+6 +3" have fallen 1, 6 and 6
C11_Witness ==
    /\ lastOp.op = "handle_dice"
    /\ lastOp.request.ints = <<6, 3>>
    /\ lastOp.request.plus
    /\ lastOp.result.rolls = <<1, 6, 6>>
    /\ lastOp.result.text[12] = "13"

====
